---------------------------- MODULE Spec2Model ----------------------------
(***************************************************************************)
(* A model of EcoAI (local.py): the tiered router answer_question, its     *)
(* rule engine, complexity classifier, the two inference backends seen     *)
(* through their outcomes, the statistics dictionary and the report.       *)
(*                                                                         *)
(* Strings are TLA+ strings, taken apart character by character with Len,  *)
(* SubSeq and \o.  Floating-point quantities are carried in exact units:   *)
(* CO2 in milligrams (tokens * 0.002 g = tokens * 2 mg), water in ml.      *)
(***************************************************************************)
EXTENDS Integers, Sequences, FiniteSets, TLC

(***************************************************************************)
(* Bounds of the model.                                                    *)
(***************************************************************************)
NumThreads == 2
MaxCalls == 2

Threads == 1..NumThreads

(***************************************************************************)
(* Python values: Optional[str] and the JSON numbers of the cloud reply.   *)
(***************************************************************************)
None == [some |-> FALSE, text |-> ""]
Some(s) == [some |-> TRUE, text |-> s]
\* Python truthiness of an Optional[str]: None and "" are both false.
Truthy(o) == o.some /\ o.text # ""

JInt(n) == [type |-> "int", n |-> n]
JNull == [type |-> "null", n |-> 0]

(***************************************************************************)
(* str methods.                                                            *)
(***************************************************************************)
UpperAlpha == "ABCDEFGHIJKLMNOPQRSTUVWXYZ"
LowerAlpha == "abcdefghijklmnopqrstuvwxyz"
Digits == "0123456789"

CharAt(s, i) == SubSeq(s, i, i)
From(s, i) == SubSeq(s, i, Len(s))

\* c in s, for a single character c
HasChar(s, c) == \E i \in 1..Len(s) : CharAt(s, i) = c

IsSpace(c) == c \in {" ", "\t", "\n", "\r", "\f"}

LowerChar(c) ==
    IF HasChar(UpperAlpha, c)
    THEN CharAt(LowerAlpha, CHOOSE i \in 1..26 : CharAt(UpperAlpha, i) = c)
    ELSE c

RECURSIVE lower(_)
lower(s) == IF s = "" THEN "" ELSE LowerChar(CharAt(s, 1)) \o lower(From(s, 2))

RECURSIVE lstrip(_)
lstrip(s) == IF s # "" /\ IsSpace(CharAt(s, 1)) THEN lstrip(From(s, 2)) ELSE s

RECURSIVE rstrip(_)
rstrip(s) ==
    IF s # "" /\ IsSpace(CharAt(s, Len(s))) THEN rstrip(SubSeq(s, 1, Len(s) - 1)) ELSE s

strip(s) == rstrip(lstrip(s))

startswith(s, k) == Len(k) <= Len(s) /\ SubSeq(s, 1, Len(k)) = k

\* k in s
contains(s, k) == \E i \in 1..(Len(s) - Len(k) + 1) : SubSeq(s, i, i + Len(k) - 1) = k

\* s.replace(k, ''): every non-overlapping occurrence, left to right
RECURSIVE remove(_, _)
remove(s, k) ==
    IF Len(s) < Len(k) THEN s
    ELSE IF startswith(s, k) THEN remove(From(s, Len(k) + 1), k)
    ELSE CharAt(s, 1) \o remove(From(s, 2), k)

\* len(s.split()): the number of maximal runs of non-whitespace
word_count(s) ==
    Cardinality({i \in 1..Len(s) :
        /\ ~IsSpace(CharAt(s, i))
        /\ (i = 1 \/ IsSpace(CharAt(s, i - 1)))})


(***************************************************************************)
(* eval(calc) for the expressions the rule engine lets through: integer    *)
(* literals, unary and binary + and -, * and true division /, parentheses  *)
(* and spaces.  A value is the exact rational n/d; f records that Python   *)
(* holds it as a float (the result of a true division).  The power and     *)
(* floor-division operators, decimal points and the empty tuple are not    *)
(* modelled (EvalModelled); no prompt of the model uses them.              *)
(***************************************************************************)
EvalModelled(calc) ==
    /\ ~contains(calc, ".")
    /\ ~contains(calc, "**")
    /\ ~contains(calc, "//")
    /\ ~contains(calc, "()")

RECURSIVE Gcd(_, _)
Gcd(a, b) == IF b = 0 THEN a ELSE Gcd(b, a % b)

Abs(a) == IF a < 0 THEN -a ELSE a

Reduced(n, d, f, g) == [n |-> n \div g, d |-> d \div g, f |-> f]
Num(n, d, f) == Reduced(n, d, f, Gcd(Abs(n), d))

PyAdd(a, b) == Num(a.n * b.d + b.n * a.d, a.d * b.d, a.f \/ b.f)
PySub(a, b) == Num(a.n * b.d - b.n * a.d, a.d * b.d, a.f \/ b.f)
PyMul(a, b) == Num(a.n * b.n, a.d * b.d, a.f \/ b.f)
PyNeg(a) == [a EXCEPT !.n = -a.n]
\* a / b with b # 0: always a float
PyDiv(a, b) ==
    IF b.n < 0 THEN Num(-(a.n * b.d), a.d * (-b.n), TRUE)
    ELSE Num(a.n * b.d, a.d * b.n, TRUE)

\* A parse result: ok, the value, and the position of the next unread character.
Fail == [ok |-> FALSE, v |-> Num(0, 1, FALSE), pos |-> 0]
Ok(v, p) == [ok |-> TRUE, v |-> v, pos |-> p]

RECURSIVE SkipSpaces(_, _)
SkipSpaces(s, p) ==
    IF p <= Len(s) /\ CharAt(s, p) = " " THEN SkipSpaces(s, p + 1) ELSE p

IsDigit(c) == HasChar(Digits, c)
DigitVal(c) == CHOOSE v \in 0..9 : CharAt(Digits, v + 1) = c

RECURSIVE DigitsEnd(_, _)
DigitsEnd(s, p) == IF p <= Len(s) /\ IsDigit(CharAt(s, p)) THEN DigitsEnd(s, p + 1) ELSE p

RECURSIVE IntOf(_)
IntOf(ds) ==
    IF ds = "" THEN 0
    ELSE 10 * IntOf(SubSeq(ds, 1, Len(ds) - 1)) + DigitVal(CharAt(ds, Len(ds)))

\* An integer literal: a nonzero literal with a leading zero is a SyntaxError.
NumberOf(ds, e) ==
    IF Len(ds) > 1 /\ CharAt(ds, 1) = "0" /\ IntOf(ds) # 0 THEN Fail
    ELSE Ok(Num(IntOf(ds), 1, FALSE), e)
NumberTo(s, p, e) == NumberOf(SubSeq(s, p, e - 1), e)
ParseNumber(s, p) == NumberTo(s, p, DigitsEnd(s, p))

\* The recursive-descent parser of
\*   arith: term (('+' | '-') term)*       term: factor (('*' | '/') factor)*
\*   factor: ('+' | '-') factor | atom     atom: NUMBER | '(' arith ')'
\* Each intermediate result is handed on as an argument.
RECURSIVE ParseArith(_, _)
RECURSIVE ArithRest(_, _, _)
RECURSIVE ArithStep(_, _, _, _)
RECURSIVE ParseTerm(_, _)
RECURSIVE TermRest(_, _, _)
RECURSIVE TermStep(_, _, _, _)
RECURSIVE ParseFactor(_, _)
RECURSIVE ParseAtom(_, _)

\* After '(' arith: the closing parenthesis, at q.
CloseParen(s, r, q) ==
    IF r.ok /\ q <= Len(s) /\ CharAt(s, q) = ")" THEN Ok(r.v, q + 1) ELSE Fail
AfterOpenParen(s, r) == IF r.ok THEN CloseParen(s, r, SkipSpaces(s, r.pos)) ELSE Fail

AtomAt(s, p) ==
    IF p > Len(s) THEN Fail
    ELSE IF IsDigit(CharAt(s, p)) THEN ParseNumber(s, p)
    ELSE IF CharAt(s, p) = "(" THEN AfterOpenParen(s, ParseArith(s, p + 1))
    ELSE Fail
ParseAtom(s, p0) == AtomAt(s, SkipSpaces(s, p0))

Signed(sign, r) ==
    IF ~r.ok THEN Fail
    ELSE IF sign = "-" THEN Ok(PyNeg(r.v), r.pos)
    ELSE r
FactorAt(s, p) ==
    IF p <= Len(s) /\ CharAt(s, p) \in {"+", "-"}
    THEN Signed(CharAt(s, p), ParseFactor(s, p + 1))
    ELSE AtomAt(s, p)
ParseFactor(s, p0) == FactorAt(s, SkipSpaces(s, p0))

\* acc (* | /) factor ..., left to right; a division by zero raises.
TermStep(s, acc, op, r) ==
    IF ~r.ok THEN Fail
    ELSE IF op = "*" THEN TermRest(s, PyMul(acc, r.v), r.pos)
    ELSE IF r.v.n = 0 THEN Fail
    ELSE TermRest(s, PyDiv(acc, r.v), r.pos)
TermRestAt(s, acc, p) ==
    IF p <= Len(s) /\ CharAt(s, p) \in {"*", "/"}
    THEN TermStep(s, acc, CharAt(s, p), ParseFactor(s, p + 1))
    ELSE Ok(acc, p)
TermRest(s, acc, p0) == TermRestAt(s, acc, SkipSpaces(s, p0))
TermFrom(s, r) == IF r.ok THEN TermRest(s, r.v, r.pos) ELSE Fail
ParseTerm(s, p) == TermFrom(s, ParseFactor(s, p))

ArithStep(s, acc, op, r) ==
    IF ~r.ok THEN Fail
    ELSE IF op = "+" THEN ArithRest(s, PyAdd(acc, r.v), r.pos)
    ELSE ArithRest(s, PySub(acc, r.v), r.pos)
ArithRestAt(s, acc, p) ==
    IF p <= Len(s) /\ CharAt(s, p) \in {"+", "-"}
    THEN ArithStep(s, acc, CharAt(s, p), ParseTerm(s, p + 1))
    ELSE Ok(acc, p)
ArithRest(s, acc, p0) == ArithRestAt(s, acc, SkipSpaces(s, p0))
ArithFrom(s, r) == IF r.ok THEN ArithRest(s, r.v, r.pos) ELSE Fail
ParseArith(s, p) == ArithFrom(s, ParseTerm(s, p))

\* eval(calc): the value, or ok = FALSE when eval raises (SyntaxError,
\* ZeroDivisionError, TypeError).
Whole(calc, r) == IF r.ok /\ r.pos = Len(calc) + 1 THEN r ELSE Fail
eval(calc) == Whole(calc, ParseArith(calc, 1))

\* str(result) inside the f-string; a float is written as its exact fraction.
FormatNumber(v) ==
    IF v.f THEN ToString(v.n) \o "/" \o ToString(v.d) ELSE ToString(v.n)

(***************************************************************************)
(* The rule engine.                                                        *)
(***************************************************************************)
greetings == {"hi", "hello", "hey", "sup", "howdy"}
GreetingText == "Hello! How can I help you today!"
AllowedChars == "0123456789+-*/(). "

\* The phrase stripping of the arithmetic rule.
calc_of(prompt) ==
    strip(remove(remove(remove(remove(lower(prompt), "what is"), "calculate"), "="), "?"))

\* Mutant: an exception of eval is not swallowed; the rule answers with it.
rule_based_eval_unguarded(prompt, prompt_lower, calc) ==
    IF \E word \in greetings : prompt_lower = word \/ startswith(prompt_lower, word \o " ")
    THEN Some(GreetingText)
    ELSE IF contains(prompt_lower, "what time") \/ contains(prompt_lower, "current time")
    THEN Some("time: HH:MM AM")
    ELSE IF contains(prompt_lower, "what date") \/ contains(prompt_lower, "today")
    THEN Some("date: Weekday, Month DD, YYYY")
    ELSE IF /\ \E op \in {"+", "-", "*", "/"} : HasChar(prompt, op)
            /\ calc # ""
            /\ \A i \in 1..Len(calc) : HasChar(AllowedChars, CharAt(calc, i))
    THEN Some(IF eval(calc).ok THEN "calc: " \o FormatNumber(eval(calc).v) ELSE "calc: error")
    ELSE None

\* The rules, given prompt.lower().strip() and the stripped calculation.
rule_based(prompt, prompt_lower, calc) ==
    IF \E word \in greetings : prompt_lower = word \/ startswith(prompt_lower, word \o " ")
    THEN Some(GreetingText)
    ELSE IF contains(prompt_lower, "what time") \/ contains(prompt_lower, "current time")
    THEN Some("time: HH:MM AM")
    ELSE IF contains(prompt_lower, "what date") \/ contains(prompt_lower, "today")
    THEN Some("date: Weekday, Month DD, YYYY")
    ELSE IF /\ \E op \in {"+", "-", "*", "/"} : HasChar(prompt, op)
            /\ calc # ""
            /\ \A i \in 1..Len(calc) : HasChar(AllowedChars, CharAt(calc, i))
            /\ eval(calc).ok
    THEN Some("calc: " \o FormatNumber(eval(calc).v))
    ELSE None

handle_rule_based(prompt) == rule_based(prompt, strip(lower(prompt)), calc_of(prompt))

(***************************************************************************)
(* The complexity classifier.                                              *)
(***************************************************************************)
LongPromptWords == 40

very_complex_keywords ==
    {"write code", "create a program", "explain in detail", "comprehensive analysis",
     "step by step guide", "detailed explanation", "compare and contrast",
     "prove mathematically", "write an essay", "design a system"}

\* Mutant: the length test is `word_count >= 40`.
categorize_complexity_from_forty(prompt) ==
    IF word_count(prompt) >= LongPromptWords THEN "complex"
    ELSE IF \E keyword \in very_complex_keywords : contains(lower(prompt), keyword)
    THEN "complex"
    ELSE "simple"

categorize_complexity(prompt) ==
    IF word_count(prompt) > LongPromptWords THEN "complex"
    ELSE IF \E keyword \in very_complex_keywords : contains(lower(prompt), keyword)
    THEN "complex"
    ELSE "simple"

(***************************************************************************)
(* The impact estimator: CO2 in milligrams, water in millilitres.          *)
(***************************************************************************)
WaterPerQueryMl == 25

calculate_environmental_impact(tokens_used) ==
    [co2 |-> tokens_used * 2, water |-> WaterPerQueryMl]

(***************************************************************************)
(* Inputs of the model: the prompts, what the local model generates and    *)
(* what the cloud API replies.                                             *)
(***************************************************************************)
LongPrompt ==
    "a a a a a a a a a a a a a a a a a a a a a a a a a a a a a a a a a a a a a a a a a"

\* 40 words: the longest prompt the word count leaves 'simple'
FortyWords ==
    "a a a a a a a a a a a a a a a a a a a a a a a a a a a a a a a a a a a a a a a a"

Prompts ==
    {"hi", "what is 2+2", "1/0", "2+", "a-b", "what is Python", "WRITE CODE",
     "design a system for x", FortyWords, LongPrompt}

\* The prompts of the requests the server's threads handle at the same time.
ServerPrompts == {"hi", "what is Python", "design a system for x"}

\* tokenizer.decode(outputs[0]) of a generation, or "raise" when the
\* tokenizer or generate() raises.
LocalGenerations ==
    {"raise", "Instruct: q\nOutput: a local answer", "Instruct: q\nOutput:  "}

\* One reply of requests.post: an exception, or a JSON body given by the
\* three things cloud_inference reads from it.  content = None stands for a
\* body without choices[0].message.content; total and reasoning are
\* usage.total_tokens and usage.completion_tokens_details.reasoning_tokens,
\* with has_total / has_reasoning FALSE when the key is absent.
Exc(kind) ==
    [kind |-> kind, content |-> None, has_total |-> FALSE, total |-> JNull,
     has_reasoning |-> FALSE, reasoning |-> JNull]
Json(content, has_total, total, has_reasoning, reasoning) ==
    [kind |-> "json", content |-> content, has_total |-> has_total, total |-> total,
     has_reasoning |-> has_reasoning, reasoning |-> reasoning]

CloudReplies ==
    {Exc("Timeout"), Exc("ConnectionError"), Exc("HTTPError"), Exc("JSONDecodeError"),
     Json(None, TRUE, JInt(80), FALSE, JNull),
     Json(Some(" a cloud answer "), TRUE, JInt(80), FALSE, JNull),
     Json(Some("a cloud answer"), FALSE, JNull, FALSE, JNull),
     Json(Some("a cloud answer"), TRUE, JInt(80), TRUE, JInt(7)),
     Json(Some("a cloud answer"), TRUE, JInt(0 - 1), TRUE, JInt(0 - 1)),
     Json(Some("a cloud answer"), TRUE, JNull, FALSE, JNull),
     Json(Some("a cloud answer"), TRUE, JInt(80), TRUE, JNull),
     Json(Some("  "), TRUE, JInt(80), FALSE, JNull),
     Json(Some(""), TRUE, JInt(80), TRUE, JInt(7))}

(***************************************************************************)
(* State.                                                                  *)
(***************************************************************************)
VARIABLES
    use_local,     \* self.use_local
    local_model,   \* self.local_model is not None
    tokenizer,     \* self.tokenizer is not None
    device,        \* self.device is not None
    downgraded,    \* history: construction disabled the local tier
    stats,         \* self.stats
    pc,            \* where each thread is
    loc,           \* each thread's local variables
    calls,         \* answer_question calls started so far
    trace,         \* history: the tiers the thread's current call has invoked
    stats0,        \* history: stats when the thread's current call began
    upd0,          \* history: stats when the thread's current update_stats began
    upd_calls,     \* history: update_stats calls made, by response_type
    answers,       \* history: results returned, by source
    cloud_tokens,  \* history: the sum of the tokens of the 'cloud' results returned
    eco_ai_instance, \* the global of the Flask handlers: 0 for None, or an index of objects
    objects,       \* the EcoAI objects the handlers have constructed
    req,           \* where each thread is in a handler, and the handler's locals
    requests,      \* requests received so far
    replied        \* history: non-error answers /chat has sent so far

vars ==
    <<use_local, local_model, tokenizer, device, downgraded, stats, pc, loc, calls,
      trace, stats0, upd0, upd_calls, answers, cloud_tokens,
      eco_ai_instance, objects, req, requests, replied>>

server == <<eco_ai_instance, objects, req, requests, replied>>
instance == <<use_local, local_model, tokenizer, device, downgraded>>
history == <<trace, stats0, upd0, upd_calls, answers, cloud_tokens>>

StatsFields ==
    {"rule_based_responses", "local_responses", "cloud_responses", "tokens_saved",
     "co2_saved_grams", "water_saved_ml", "total_tokens_used", "reasoning_tokens_used"}

ResponseTypes == {"rule-based", "local", "cloud"}
Sources == {"rule-based", "local", "cloud", "error"}

NoResult == [answer |-> "", source |-> "", tokens |-> JInt(0), co2 |-> 0]
NoReport == [empty |-> TRUE, total_queries |-> 0, rule_pct |-> 0, local_pct |-> 0,
             cloud_pct |-> 0]

NoReply == Exc("")

InitLoc ==
    [prompt |-> "", rule_response |-> None, complexity |-> "", local_response |-> None,
     reply |-> NoReply,
     cloud_response |-> None, tokens |-> JInt(0), reasoning_tokens |-> JInt(0),
     response_type |-> "", todo |-> <<>>, tmp |-> 0, result |-> NoResult,
     report |-> NoReport]

(***************************************************************************)
(* Construction: EcoAI.__init__ and load_local_model.                      *)
(***************************************************************************)
LoadOutcomes == {"ok", "tokenizer raises", "model raises", "test raises"}

\* Mutant: the load reports success whatever was raised.
load_local_model_always_succeeds(is_server_mode, enable_local_in_server, load) ==
    IF is_server_mode /\ ~enable_local_in_server
    THEN [success |-> FALSE, tokenizer |-> FALSE, device |-> FALSE, local_model |-> FALSE]
    ELSE [success |-> TRUE,
          tokenizer |-> load # "tokenizer raises",
          device |-> load # "tokenizer raises",
          local_model |-> load \in {"ok", "test raises"}]

\* What load_local_model leaves behind; load says where it raised, if it did.
load_local_model(is_server_mode, enable_local_in_server, load) ==
    IF is_server_mode /\ ~enable_local_in_server
    THEN [success |-> FALSE, tokenizer |-> FALSE, device |-> FALSE, local_model |-> FALSE]
    ELSE [success |-> load = "ok",
          tokenizer |-> load # "tokenizer raises",
          device |-> load # "tokenizer raises",
          local_model |-> load \in {"ok", "test raises"}]

EcoAI_init(use_local_arg, force_cloud, is_server_mode, enable_local_in_server, load) ==
    LET want == use_local_arg /\ ~force_cloud
        should_import_ml == ~is_server_mode \/ (is_server_mode /\ enable_local_in_server)
        r == load_local_model(is_server_mode, enable_local_in_server, load)
    IN IF want /\ should_import_ml
       THEN [use_local |-> r.success, tokenizer |-> r.tokenizer, device |-> r.device,
             local_model |-> r.local_model]
       ELSE [use_local |-> IF is_server_mode /\ ~enable_local_in_server THEN FALSE ELSE want,
             tokenizer |-> FALSE, device |-> FALSE, local_model |-> FALSE]

\* The construction met one of the conditions that disable the local tier:
\* force_cloud, the server configuration, or a failure of the load it attempted.
Downgrading(use_local_arg, force_cloud, is_server_mode, enable_local_in_server, load) ==
    \/ force_cloud
    \/ is_server_mode /\ ~enable_local_in_server
    \/ use_local_arg /\ load # "ok"

InitStats == [f \in StatsFields |-> 0]

\* A thread that serves no request.
NoRequest == [pc |-> "idle", prompt |-> "", response |-> "", replied_before |-> 0, seen |-> 0]

\* The module as loaded: eco_ai_instance = None, no request yet.
InitServer ==
    /\ eco_ai_instance = 0
    /\ objects = <<>>
    /\ req = [t \in Threads |-> NoRequest]
    /\ requests = 0
    /\ replied = 0

Init ==
    /\ \E ul \in BOOLEAN, fc \in BOOLEAN, sm \in BOOLEAN, en \in BOOLEAN, ld \in LoadOutcomes :
         LET e == EcoAI_init(ul, fc, sm, en, ld)
         IN /\ use_local = e.use_local
            /\ local_model = e.local_model
            /\ tokenizer = e.tokenizer
            /\ device = e.device
            /\ downgraded = Downgrading(ul, fc, sm, en, ld)
    /\ stats = InitStats
    /\ pc = [t \in Threads |-> "idle"]
    /\ loc = [t \in Threads |-> InitLoc]
    /\ calls = 0
    /\ trace = [t \in Threads |-> <<>>]
    /\ stats0 = [t \in Threads |-> InitStats]
    /\ upd0 = [t \in Threads |-> InitStats]
    /\ upd_calls = [k \in ResponseTypes |-> 0]
    /\ answers = [k \in Sources |-> 0]
    /\ cloud_tokens = 0
    /\ InitServer

(***************************************************************************)
(* update_stats.  The function is a list of `self.stats[field] += amount`  *)
(* statements; each is a read of the field followed by a write, and other  *)
(* threads may run in between (the code takes no lock).                    *)
(***************************************************************************)
RuleBasedTokens == 50
LocalEstimatedTokens == 100

\* Mutant: the local branch credits the rule-based amounts.
update_stats_local_as_rule(response_type, tokens) ==
    IF response_type = "cloud"
    THEN << <<"cloud_responses", JInt(1)>>, <<"total_tokens_used", tokens>> >>
    ELSE << <<(IF response_type = "local" THEN "local_responses" ELSE "rule_based_responses"),
              JInt(1)>>,
            <<"tokens_saved", JInt(RuleBasedTokens)>>,
            <<"co2_saved_grams", JInt(calculate_environmental_impact(RuleBasedTokens).co2)>>,
            <<"water_saved_ml", JInt(calculate_environmental_impact(RuleBasedTokens).water)>> >>

update_stats(response_type, tokens) ==
    IF response_type = "rule-based"
    THEN << <<"rule_based_responses", JInt(1)>>,
            <<"tokens_saved", JInt(RuleBasedTokens)>>,
            <<"co2_saved_grams", JInt(calculate_environmental_impact(RuleBasedTokens).co2)>>,
            <<"water_saved_ml", JInt(calculate_environmental_impact(RuleBasedTokens).water)>> >>
    ELSE IF response_type = "local"
    THEN << <<"local_responses", JInt(1)>>,
            <<"tokens_saved", JInt(LocalEstimatedTokens)>>,
            <<"co2_saved_grams", JInt(calculate_environmental_impact(LocalEstimatedTokens).co2)>>,
            <<"water_saved_ml", JInt(calculate_environmental_impact(LocalEstimatedTokens).water)>> >>
    ELSE IF response_type = "cloud"
    THEN << <<"cloud_responses", JInt(1)>>,
            <<"total_tokens_used", tokens>> >>
    ELSE << >>

\* x += amount on a value read earlier
augmented_add(old, amount) == old + amount.n

\* The call self.update_stats(response_type, tokens) made by thread t, whose
\* other locals become l: the statements of the branch taken are still to run.
CallUpdateStats(t, response_type, tokens, l) ==
    LET todo == update_stats(response_type, tokens)
    IN /\ loc' = [loc EXCEPT ![t] = [l EXCEPT !.response_type = response_type,
                                              !.tokens = tokens,
                                              !.todo = todo]]
       /\ pc' = [pc EXCEPT ![t] = IF todo = <<>> THEN "update_stats_done" ELSE "stats_read"]
       /\ upd0' = [upd0 EXCEPT ![t] = stats]
       /\ upd_calls' = [upd_calls EXCEPT ![response_type] = @ + 1]

\* The read of self.stats[field] in `self.stats[field] += amount`.
UpdateStatsRead(t) ==
    /\ pc[t] = "stats_read"
    /\ loc' = [loc EXCEPT ![t].tmp = stats[Head(loc[t].todo)[1]]]
    /\ pc' = [pc EXCEPT ![t] = "stats_write"]
    /\ UNCHANGED <<instance, server, stats, calls, history>>

\* The addition and the write back.  Adding a value that is no number raises
\* TypeError, which nothing in update_stats or answer_question catches.
UpdateStatsWrite(t) ==
    /\ pc[t] = "stats_write"
    /\ LET field == Head(loc[t].todo)[1]
           amount == Head(loc[t].todo)[2]
           rest == Tail(loc[t].todo)
       IN IF amount.type = "int"
          THEN /\ stats' = [stats EXCEPT ![field] = augmented_add(loc[t].tmp, amount)]
               /\ loc' = [loc EXCEPT ![t].todo = rest, ![t].tmp = 0]
               /\ pc' = [pc EXCEPT ![t] = IF rest = <<>> THEN "update_stats_done"
                                          ELSE "stats_read"]
          ELSE /\ pc' = [pc EXCEPT ![t] = "raised"]
               /\ loc' = [loc EXCEPT ![t].todo = <<>>, ![t].tmp = 0]
               /\ UNCHANGED stats
    /\ UNCHANGED <<instance, server, calls, history>>

(***************************************************************************)
(* The backends.                                                           *)
(***************************************************************************)
\* The text after the last "Output:" of a decoded generation.
RECURSIVE after_last(_, _)
after_last(s, k) ==
    IF contains(From(s, 2), k) THEN after_last(From(s, 2), k)
    ELSE IF startswith(s, k) THEN From(s, Len(k) + 1)
    ELSE after_last(From(s, 2), k)

\* local_inference(prompt) when the model generates `generation`.
local_inference(ul, model, dev, generation) ==
    IF ~ul THEN None
    ELSE IF ~model THEN None
    ELSE IF ~dev THEN None
    ELSE IF generation = "raise" THEN None
    ELSE IF contains(generation, "Output:")
    THEN Some(strip(after_last(generation, "Output:")))
    ELSE Some(generation)

CloudMaxTokens == 150

\* cloud_inference up to the statistics update: what it has parsed from the
\* reply.  failed: an exception was raised and caught, (None, 0) is returned.
cloud_parse(reply) ==
    IF reply.kind # "json" \/ ~reply.content.some
    THEN [failed |-> TRUE, answer |-> None, tokens |-> JInt(0), reasoning_tokens |-> JInt(0)]
    ELSE [failed |-> FALSE,
          answer |-> Some(strip(reply.content.text)),
          tokens |-> IF reply.has_total THEN reply.total ELSE JInt(CloudMaxTokens),
          reasoning_tokens |-> IF reply.has_reasoning THEN reply.reasoning ELSE JInt(0)]

(***************************************************************************)
(* answer_question, one action per step of the routing.                    *)
(***************************************************************************)
Invoke(t, tier) == trace' = [trace EXCEPT ![t] = Append(@, tier)]

\* What follows each tier.
\* Mutant: the rule engine's answer is not returned, routing goes on.
after_rule_based_ignored(rule_response) == "categorize"
after_rule_based(rule_response) == IF Truthy(rule_response) THEN "answer" ELSE "categorize"
\* Mutant: the complexity is not consulted.
after_categorize_any(complexity, ul) == IF ul THEN "local" ELSE "cloud"
\* Mutant: the local tier is not gated by use_local.
after_categorize_ungated(complexity, ul) == IF complexity = "simple" THEN "local" ELSE "cloud"
after_categorize(complexity, ul) == IF complexity = "simple" /\ ul THEN "local" ELSE "cloud"
\* Mutant: a failed local generation is tried again.
after_local_retry(local_response) == IF Truthy(local_response) THEN "answer" ELSE "local"
after_local(local_response) == IF Truthy(local_response) THEN "answer" ELSE "cloud"
after_cloud(cloud_response) == IF Truthy(cloud_response) THEN "answer" ELSE "error"

\* A caller calls answer_question(prompt), with one of the given prompts.
AnswerQuestion(t, prompts) ==
    /\ pc[t] = "idle"
    /\ calls < MaxCalls
    /\ \E prompt \in prompts : loc' = [loc EXCEPT ![t] = [InitLoc EXCEPT !.prompt = prompt]]
    /\ pc' = [pc EXCEPT ![t] = "rule_based"]
    /\ calls' = calls + 1
    /\ trace' = [trace EXCEPT ![t] = <<>>]
    /\ stats0' = [stats0 EXCEPT ![t] = stats]
    /\ UNCHANGED <<instance, server, stats, upd0, upd_calls, answers, cloud_tokens>>

\* 1. Try rule-based first
Step1RuleBased(t) ==
    /\ pc[t] = "rule_based"
    /\ Invoke(t, "rule")
    /\ LET rule_response == handle_rule_based(loc[t].prompt)
           l == [loc[t] EXCEPT !.rule_response = rule_response]
       IN IF after_rule_based(rule_response) = "answer"
          THEN CallUpdateStats(t, "rule-based", JInt(0), l)
          ELSE /\ loc' = [loc EXCEPT ![t] = l]
               /\ pc' = [pc EXCEPT ![t] = after_rule_based(rule_response)]
               /\ UNCHANGED <<upd0, upd_calls>>
    /\ UNCHANGED <<instance, server, stats, calls, stats0, answers, cloud_tokens>>

\* 2. Categorize complexity, and the test that gates the local tier
Step2Categorize(t) ==
    /\ pc[t] = "categorize"
    /\ Invoke(t, "classifier")
    /\ LET complexity == categorize_complexity(loc[t].prompt)
       IN /\ loc' = [loc EXCEPT ![t].complexity = complexity]
          /\ pc' = [pc EXCEPT ![t] = after_categorize(complexity, use_local)]
    /\ UNCHANGED <<instance, server, stats, calls, stats0, upd0, upd_calls, answers, cloud_tokens>>

\* Mutant: a failed local generation switches the local tier off.
Step3LocalAI_downgrades(t) ==
    /\ pc[t] = "local"
    /\ Invoke(t, "local")
    /\ \E generation \in LocalGenerations :
         LET local_response == local_inference(use_local, local_model, device, generation)
             l == [loc[t] EXCEPT !.local_response = local_response]
         IN IF after_local(local_response) = "answer"
            THEN /\ CallUpdateStats(t, "local", JInt(0), l)
                 /\ UNCHANGED use_local
            ELSE /\ loc' = [loc EXCEPT ![t] = l]
                 /\ pc' = [pc EXCEPT ![t] = after_local(local_response)]
                 /\ use_local' = FALSE
                 /\ UNCHANGED <<upd0, upd_calls>>
    /\ UNCHANGED <<local_model, tokenizer, device, downgraded, server, stats, calls, stats0,
                   answers, cloud_tokens>>

\* 3. Try local AI for simple queries
Step3LocalAI(t) ==
    /\ pc[t] = "local"
    /\ Invoke(t, "local")
    /\ \E generation \in LocalGenerations :
         LET local_response == local_inference(use_local, local_model, device, generation)
             l == [loc[t] EXCEPT !.local_response = local_response]
         IN IF after_local(local_response) = "answer"
            THEN CallUpdateStats(t, "local", JInt(0), l)
            ELSE /\ loc' = [loc EXCEPT ![t] = l]
                 /\ pc' = [pc EXCEPT ![t] = after_local(local_response)]
                 /\ UNCHANGED <<upd0, upd_calls>>
    /\ UNCHANGED <<instance, server, stats, calls, stats0, answers, cloud_tokens>>

\* 4. Fall back to cloud: cloud_inference sends the request and parses the reply
Step4CloudAI(t) ==
    /\ pc[t] = "cloud"
    /\ Invoke(t, "cloud")
    /\ \E reply \in CloudReplies :
         LET r == cloud_parse(reply)
         IN /\ loc' = [loc EXCEPT ![t].reply = reply,
                                  ![t].cloud_response = r.answer,
                                  ![t].tokens = r.tokens,
                                  ![t].reasoning_tokens = r.reasoning_tokens]
            /\ pc' = [pc EXCEPT ![t] = IF r.failed THEN "cloud_returned" ELSE "reasoning_read"]
    /\ UNCHANGED <<instance, server, stats, calls, stats0, upd0, upd_calls, answers, cloud_tokens>>

\* cloud_inference: the read of self.stats['reasoning_tokens_used'] += ...
CloudReasoningRead(t) ==
    /\ pc[t] = "reasoning_read"
    /\ loc' = [loc EXCEPT ![t].tmp = stats["reasoning_tokens_used"]]
    /\ pc' = [pc EXCEPT ![t] = "reasoning_write"]
    /\ UNCHANGED <<instance, server, stats, calls, history>>

\* cloud_inference: the addition and the write back, then `return answer,
\* tokens`; a TypeError of the addition is caught and (None, 0) returned.
CloudReasoningWrite(t) ==
    /\ pc[t] = "reasoning_write"
    /\ IF loc[t].reasoning_tokens.type = "int"
       THEN /\ stats' = [stats EXCEPT !["reasoning_tokens_used"] =
                            augmented_add(loc[t].tmp, loc[t].reasoning_tokens)]
            /\ loc' = [loc EXCEPT ![t].tmp = 0]
       ELSE /\ loc' = [loc EXCEPT ![t].tmp = 0, ![t].cloud_response = None,
                                  ![t].tokens = JInt(0)]
            /\ UNCHANGED stats
    /\ pc' = [pc EXCEPT ![t] = "cloud_returned"]
    /\ UNCHANGED <<instance, server, calls, history>>

ErrorResult ==
    [answer |-> "Sorry, I couldn't generate a response. Please check server logs for details.",
     source |-> "error", tokens |-> JInt(0), co2 |-> 0]

\* After cloud_inference returned: record a cloud answer, or return the error result.
CloudReturned(t) ==
    /\ pc[t] = "cloud_returned"
    /\ IF after_cloud(loc[t].cloud_response) = "answer"
       THEN /\ CallUpdateStats(t, "cloud", loc[t].tokens, loc[t])
            /\ UNCHANGED <<answers, cloud_tokens>>
       ELSE /\ loc' = [loc EXCEPT ![t].result = ErrorResult]
            /\ pc' = [pc EXCEPT ![t] = "returned"]
            /\ answers' = [answers EXCEPT !["error"] = @ + 1]
            /\ UNCHANGED cloud_tokens
            /\ UNCHANGED <<upd0, upd_calls>>
    /\ UNCHANGED <<instance, server, stats, calls, trace, stats0>>

\* Mutant: the cloud result is built like the other two, with no tokens.
result_of_no_tokens(l) ==
    IF l.response_type = "rule-based"
    THEN [answer |-> l.rule_response.text, source |-> "rule-based", tokens |-> JInt(0), co2 |-> 0]
    ELSE IF l.response_type = "local"
    THEN [answer |-> "[Local AI] " \o l.local_response.text, source |-> "local",
          tokens |-> JInt(0), co2 |-> 0]
    ELSE [answer |-> "[Cloud AI] " \o l.cloud_response.text, source |-> "cloud",
          tokens |-> JInt(0), co2 |-> 0]

\* The result answer_question returns after update_stats.
result_of(l) ==
    IF l.response_type = "rule-based"
    THEN [answer |-> l.rule_response.text, source |-> "rule-based", tokens |-> JInt(0), co2 |-> 0]
    ELSE IF l.response_type = "local"
    THEN [answer |-> "[Local AI] " \o l.local_response.text, source |-> "local",
          tokens |-> JInt(0), co2 |-> 0]
    ELSE [answer |-> "[Cloud AI] " \o l.cloud_response.text, source |-> "cloud",
          tokens |-> l.tokens, co2 |-> calculate_environmental_impact(l.tokens.n).co2]

\* update_stats has returned: answer_question returns its result.
ReturnAnswer(t) ==
    /\ pc[t] = "update_stats_done"
    /\ loc' = [loc EXCEPT ![t].result = result_of(loc[t])]
    /\ pc' = [pc EXCEPT ![t] = "returned"]
    /\ answers' = [answers EXCEPT ![result_of(loc[t]).source] = @ + 1]
    /\ cloud_tokens' = cloud_tokens + result_of(loc[t]).tokens.n
    /\ upd0' = [upd0 EXCEPT ![t] = InitStats]
    /\ UNCHANGED <<instance, server, stats, calls, trace, stats0, upd_calls>>

(***************************************************************************)
(* get_impact_report.  Percentages are in tenths of a percent.             *)
(***************************************************************************)
\* (count / total_queries) * 100 if total_queries > 0 else 0
Pct(count, total) == IF total > 0 THEN (count * 2000 + total) \div (2 * total) ELSE 0

\* Mutant: no early return when nothing has been answered yet.
get_impact_report_no_early_return(s) ==
    [empty |-> FALSE,
     total_queries |-> s["rule_based_responses"] + s["local_responses"] + s["cloud_responses"],
     rule_pct |-> 0, local_pct |-> 0, cloud_pct |-> 0]

get_impact_report(s) ==
    LET total_queries ==
            s["rule_based_responses"] + s["local_responses"] + s["cloud_responses"]
    IN IF total_queries = 0
       THEN NoReport
       ELSE [empty |-> FALSE, total_queries |-> total_queries,
             rule_pct |-> Pct(s["rule_based_responses"], total_queries),
             local_pct |-> Pct(s["local_responses"], total_queries),
             cloud_pct |-> Pct(s["cloud_responses"], total_queries)]

\* Mutant: producing the report starts the counters afresh.
GetImpactReport_resets(t) ==
    /\ pc[t] = "idle"
    /\ loc' = [loc EXCEPT ![t] = [InitLoc EXCEPT !.report = get_impact_report(stats)]]
    /\ pc' = [pc EXCEPT ![t] = "reported"]
    /\ stats' = InitStats
    /\ UNCHANGED <<instance, server, calls, history>>

GetImpactReport(t) ==
    /\ pc[t] = "idle"
    /\ loc' = [loc EXCEPT ![t] = [InitLoc EXCEPT !.report = get_impact_report(stats)]]
    /\ pc' = [pc EXCEPT ![t] = "reported"]
    /\ UNCHANGED <<instance, server, stats, calls, history>>

\* The caller has the result, the report or the exception; the thread is free.
Finish(t) ==
    /\ pc[t] \in {"returned", "raised", "reported"}
    /\ pc' = [pc EXCEPT ![t] = "idle"]
    /\ loc' = [loc EXCEPT ![t] = InitLoc]
    /\ trace' = [trace EXCEPT ![t] = <<>>]
    /\ stats0' = [stats0 EXCEPT ![t] = InitStats]
    /\ upd0' = [upd0 EXCEPT ![t] = InitStats]
    /\ UNCHANGED <<instance, server, stats, calls, upd_calls, answers, cloud_tokens>>

(***************************************************************************)
(* The Flask handlers chat and stats of a server that runs the module      *)
(* without its main block: eco_ai_instance is None until a request creates *)
(* the instance.  A handler tests the global, constructs and assigns, then *)
(* uses the global; other threads may run between these steps.  Here       *)
(* answer_question runs as one step on the object the global names.        *)
(***************************************************************************)
MaxRequests == 3

\* data.get('prompt', ''): the prompts of the requests, the missing one included
ChatPrompts == ServerPrompts \cup {""}

\* What the backends give the requests of the handlers.
ServerGenerations == {"raise", "Instruct: q\nOutput: a local answer"}
ServerReplies ==
    {Exc("Timeout"),
     Json(Some("a cloud answer"), TRUE, JInt(80), TRUE, JInt(7)),
     Json(Some("a cloud answer"), TRUE, JNull, FALSE, JNull)}

\* EcoAI(use_local=True), ENABLE_LOCAL_IN_SERVER being True
new_EcoAI(is_server_mode, load) ==
    [use_local |-> EcoAI_init(TRUE, FALSE, is_server_mode, TRUE, load).use_local,
     local_model |-> EcoAI_init(TRUE, FALSE, is_server_mode, TRUE, load).local_model,
     device |-> EcoAI_init(TRUE, FALSE, is_server_mode, TRUE, load).device,
     stats |-> InitStats]

\* update_stats run to its end, or to the statement that raises
RECURSIVE run_updates(_, _)
run_updates(s, todo) ==
    IF todo = <<>> THEN s
    ELSE IF Head(todo)[2].type # "int" THEN s
    ELSE run_updates([s EXCEPT ![Head(todo)[1]] = augmented_add(@, Head(todo)[2])], Tail(todo))

updates_raise(todo) == \E i \in DOMAIN todo : todo[i][2].type # "int"

\* self.update_stats(response_type, tokens) and the return that follows it
recorded(s, response_type, tokens) ==
    [stats |-> run_updates(s, update_stats(response_type, tokens)),
     source |-> IF updates_raise(update_stats(response_type, tokens)) THEN "raised"
                ELSE response_type]

\* cloud_inference on stats s, r being what it parsed from the reply
cloud_inference(s, r) ==
    IF r.failed \/ r.reasoning_tokens.type # "int"
    THEN [stats |-> s, answer |-> None, tokens |-> JInt(0)]
    ELSE [stats |-> [s EXCEPT !["reasoning_tokens_used"] = augmented_add(@, r.reasoning_tokens)],
          answer |-> r.answer, tokens |-> r.tokens]

\* step 4 of answer_question, c being what cloud_inference left and returned
cloud_answer(c) ==
    IF after_cloud(c.answer) = "answer" THEN recorded(c.stats, "cloud", c.tokens)
    ELSE [stats |-> c.stats, source |-> "error"]

\* self.answer_question(prompt), given what handle_rule_based and
\* categorize_complexity return for the prompt: the stats it leaves and the
\* source of its result ("raised" when it raises)
answer_question(self, rule_response, complexity, generation, reply) ==
    IF after_rule_based(rule_response) = "answer"
    THEN recorded(self.stats, "rule-based", JInt(0))
    ELSE IF /\ after_categorize(complexity, self.use_local) = "local"
            /\ after_local(local_inference(self.use_local, self.local_model, self.device,
                                            generation)) = "answer"
    THEN recorded(self.stats, "local", JInt(0))
    ELSE cloud_answer(cloud_inference(self.stats, cloud_parse(reply)))

\* A POST /chat arrives: the handler tests `eco_ai_instance is None`.
Chat(t) ==
    /\ req[t].pc = "idle"
    /\ requests < MaxRequests
    /\ requests' = requests + 1
    /\ \E prompt \in ChatPrompts :
         req' = [req EXCEPT ![t] =
                    [NoRequest EXCEPT !.prompt = prompt,
                                      !.pc = IF eco_ai_instance = 0 THEN "chat_init"
                                             ELSE "chat_call"]]
    /\ UNCHANGED <<eco_ai_instance, objects, replied>>

\* A GET /stats arrives: the handler tests `eco_ai_instance is None`.
Stats(t) ==
    /\ req[t].pc = "idle"
    /\ requests < MaxRequests
    /\ requests' = requests + 1
    /\ req' = [req EXCEPT ![t] =
                  [NoRequest EXCEPT !.replied_before = replied,
                                    !.pc = IF eco_ai_instance = 0 THEN "stats_init"
                                           ELSE "stats_report"]]
    /\ UNCHANGED <<eco_ai_instance, objects, replied>>

\* eco_ai_instance = EcoAI(use_local=True), in either handler
CreateInstance(t) ==
    /\ req[t].pc \in {"chat_init", "stats_init"}
    /\ \E is_server_mode \in BOOLEAN, load \in LoadOutcomes :
         objects' = Append(objects, new_EcoAI(is_server_mode, load))
    /\ eco_ai_instance' = Len(objects) + 1
    /\ req' = [req EXCEPT ![t].pc = IF @ = "chat_init" THEN "chat_call" ELSE "stats_report"]
    /\ UNCHANGED <<requests, replied>>

\* chat: 400 without a prompt; otherwise eco_ai_instance.answer_question(prompt)
\* and the response, 500 when the call raised
ChatCall(t) ==
    /\ req[t].pc = "chat_call"
    /\ IF req[t].prompt = ""
       THEN /\ req' = [req EXCEPT ![t].pc = "chat_done", ![t].response = "400"]
            /\ UNCHANGED <<objects, replied>>
       ELSE \E rule_response \in {handle_rule_based(req[t].prompt)},
               complexity \in {categorize_complexity(req[t].prompt)},
               generation \in ServerGenerations, reply \in ServerReplies :
              \E result \in {answer_question(objects[eco_ai_instance], rule_response,
                                              complexity, generation, reply)} :
                /\ objects' = [objects EXCEPT ![eco_ai_instance].stats = result.stats]
                /\ req' = [req EXCEPT ![t].pc = "chat_done", ![t].response = result.source]
                /\ replied' = IF result.source \in ResponseTypes THEN replied + 1
                              ELSE replied
    /\ UNCHANGED <<eco_ai_instance, requests>>

\* stats: eco_ai_instance.get_impact_report() and eco_ai_instance.stats
StatsReport(t) ==
    /\ req[t].pc = "stats_report"
    /\ req' = [req EXCEPT ![t].pc = "stats_done",
                          ![t].response = "report",
                          ![t].seen =
                              get_impact_report(objects[eco_ai_instance].stats).total_queries]
    /\ UNCHANGED <<eco_ai_instance, objects, requests, replied>>

\* The response is sent; the thread is free.
Respond(t) ==
    /\ req[t].pc \in {"chat_done", "stats_done"}
    /\ req' = [req EXCEPT ![t] = NoRequest]
    /\ UNCHANGED <<eco_ai_instance, objects, requests, replied>>

(***************************************************************************)
(* Specifications.  Spec: the threads of the server run concurrently.      *)
(* SpecSeq: one call at a time, as in the command-line loop.               *)
(* SpecSeqFair: SpecSeq in which a call that reached the cloud goes on.    *)
(* SpecLazy, further down: the Flask handlers creating the instance.       *)
(***************************************************************************)
Step(t) ==
    \/ AnswerQuestion(t, ServerPrompts)
    \/ Step1RuleBased(t)
    \/ Step2Categorize(t)
    \/ Step3LocalAI(t)
    \/ Step4CloudAI(t)
    \/ CloudReasoningRead(t)
    \/ CloudReasoningWrite(t)
    \/ CloudReturned(t)
    \/ UpdateStatsRead(t)
    \/ UpdateStatsWrite(t)
    \/ ReturnAnswer(t)
    \/ GetImpactReport(t)
    \/ Finish(t)

Next == \E t \in Threads : Step(t)

Spec == Init /\ [][Next]_vars

OthersIdle(t) == \A u \in Threads \ {t} : pc[u] = "idle"

StepSeq(t) ==
    \/ OthersIdle(t) /\ AnswerQuestion(t, Prompts)
    \/ OthersIdle(t) /\ Step1RuleBased(t)
    \/ OthersIdle(t) /\ Step2Categorize(t)
    \/ OthersIdle(t) /\ Step3LocalAI(t)
    \/ OthersIdle(t) /\ Step4CloudAI(t)
    \/ OthersIdle(t) /\ CloudReasoningRead(t)
    \/ OthersIdle(t) /\ CloudReasoningWrite(t)
    \/ OthersIdle(t) /\ CloudReturned(t)
    \/ OthersIdle(t) /\ UpdateStatsRead(t)
    \/ OthersIdle(t) /\ UpdateStatsWrite(t)
    \/ OthersIdle(t) /\ ReturnAnswer(t)
    \/ OthersIdle(t) /\ GetImpactReport(t)
    \/ OthersIdle(t) /\ Finish(t)

NextSeq == \E t \in Threads : StepSeq(t)

SpecSeq == Init /\ [][NextSeq]_vars

\* The statements of a call from the cloud request on.
FromCloudOn(t) ==
    \/ Step4CloudAI(t)
    \/ CloudReasoningRead(t)
    \/ CloudReasoningWrite(t)
    \/ CloudReturned(t)
    \/ UpdateStatsRead(t)
    \/ UpdateStatsWrite(t)
    \/ ReturnAnswer(t)

\* SpecSeq with progress: requests.post returns or raises within its timeout,
\* and the interpreter goes on running the statements that follow it.
SpecSeqFair == SpecSeq /\ \A t \in Threads : WF_vars(OthersIdle(t) /\ FromCloudOn(t))

\* SpecLazy: the handlers of a server whose first requests find
\* eco_ai_instance = None; the calls above are not used.
self_fields ==
    <<use_local, local_model, tokenizer, device, downgraded, stats, pc, loc, calls,
      trace, stats0, upd0, upd_calls, answers, cloud_tokens>>

InitLazy ==
    /\ use_local = FALSE
    /\ local_model = FALSE
    /\ tokenizer = FALSE
    /\ device = FALSE
    /\ downgraded = FALSE
    /\ stats = InitStats
    /\ pc = [t \in Threads |-> "idle"]
    /\ loc = [t \in Threads |-> InitLoc]
    /\ calls = 0
    /\ trace = [t \in Threads |-> <<>>]
    /\ stats0 = [t \in Threads |-> InitStats]
    /\ upd0 = [t \in Threads |-> InitStats]
    /\ upd_calls = [k \in ResponseTypes |-> 0]
    /\ answers = [k \in Sources |-> 0]
    /\ cloud_tokens = 0
    /\ InitServer

Handle(t) ==
    \/ Chat(t) /\ UNCHANGED self_fields
    \/ Stats(t) /\ UNCHANGED self_fields
    \/ CreateInstance(t) /\ UNCHANGED self_fields
    \/ ChatCall(t) /\ UNCHANGED self_fields
    \/ StatsReport(t) /\ UNCHANGED self_fields
    \/ Respond(t) /\ UNCHANGED self_fields

NextLazy == \E t \in Threads : Handle(t)

SpecLazy == InitLazy /\ [][NextLazy]_vars

(***************************************************************************)
(* Properties.                                                             *)
(***************************************************************************)
Count(seq, x) == Cardinality({i \in DOMAIN seq : seq[i] = x})
Invoked(t, tier) == Count(trace[t], tier) > 0
IsPrefix(a, b) == Len(a) <= Len(b) /\ SubSeq(b, 1, Len(a)) = a
Last(seq) == seq[Len(seq)]
Completed(t) == pc[t] \in {"returned", "raised"}
ResponseCount == [k \in ResponseTypes |->
    IF k = "rule-based" THEN "rule_based_responses"
    ELSE IF k = "local" THEN "local_responses" ELSE "cloud_responses"]

\* C1: within a call the tiers are invoked in the order rule engine,
\* classifier, local backend, cloud backend, each at most once and none
\* skipped except the local one; once the rule engine or the local backend
\* has produced an answer no later tier is invoked, and the source of the
\* result is the last tier invoked.
C1_TierOrder ==
    \A t \in Threads :
        /\ \/ IsPrefix(trace[t], <<"rule", "classifier", "local", "cloud">>)
           \/ IsPrefix(trace[t], <<"rule", "classifier", "cloud">>)
        /\ Truthy(loc[t].rule_response) => trace[t] = <<"rule">>
        /\ Truthy(loc[t].local_response) => Last(trace[t]) = "local"
        /\ pc[t] = "returned" =>
             /\ loc[t].result.source = "rule-based" => trace[t] = <<"rule">>
             /\ loc[t].result.source = "local" => Last(trace[t]) = "local"
             /\ loc[t].result.source \in {"cloud", "error"} => Last(trace[t]) = "cloud"

\* C1 witness: the greeting "hi" was answered by the rule engine alone.
C1_Witness ==
    \E t \in Threads :
        /\ pc[t] = "returned"
        /\ loc[t].prompt = "hi"
        /\ loc[t].result.source = "rule-based"
        /\ trace[t] = <<"rule">>

\* C2: when no call is in progress, rule_based_responses + local_responses +
\* cloud_responses equals the number of results returned with a source other
\* than 'error'; and a call that returns a non-error result has incremented
\* the counter of its source by 1 and left the other two counters alone.
C2_CountersMatchAnswers ==
    /\ (\A t \in Threads : pc[t] = "idle") =>
          stats["rule_based_responses"] + stats["local_responses"] + stats["cloud_responses"]
            = answers["rule-based"] + answers["local"] + answers["cloud"]
    /\ \A t \in Threads :
          (pc[t] = "returned" /\ loc[t].result.source # "error") =>
             \A k \in ResponseTypes :
                stats[ResponseCount[k]] =
                    stats0[t][ResponseCount[k]] + (IF k = loc[t].result.source THEN 1 ELSE 0)

\* C3: whenever no thread is inside update_stats, each response counter
\* equals the number of update_stats calls of its kind made so far (no
\* update is lost).
C3_NoLostUpdate ==
    (\A t \in Threads : pc[t] \notin {"stats_read", "stats_write"}) =>
        \A k \in ResponseTypes : stats[ResponseCount[k]] = upd_calls[k]

\* C4: a call that returns the 'error' result returns tokens 0 and co2 0 and
\* leaves every field of stats as it was when the call began.
C4_ErrorLeavesStats ==
    \A t \in Threads :
        (pc[t] = "returned" /\ loc[t].result.source = "error") =>
            /\ loc[t].result.tokens = JInt(0)
            /\ loc[t].result.co2 = 0
            /\ stats = stats0[t]

\* C5: once a call is past the routing decision, the local backend has been
\* invoked exactly if the rule engine declined, the prompt was classified
\* 'simple' and use_local is true; a 'complex' prompt reaches the cloud
\* backend without the local one whatever use_local is; and a 'simple'
\* prompt with the local tier disabled reaches the cloud backend, the error
\* result arising only from the cloud backend's failure.
C5_LocalGate ==
    \A t \in Threads :
        /\ pc[t] \notin {"idle", "rule_based", "categorize", "local", "reported"} =>
             (Invoked(t, "local") <=>
                 (/\ ~Truthy(loc[t].rule_response)
                  /\ loc[t].complexity = "simple"
                  /\ use_local))
        /\ (loc[t].complexity = "complex" /\ pc[t] # "cloud") =>
             trace[t] = <<"rule", "classifier", "cloud">>
        /\ (loc[t].complexity = "simple" /\ ~use_local /\ pc[t] # "cloud") =>
             /\ trace[t] = <<"rule", "classifier", "cloud">>
             /\ (pc[t] = "returned" /\ loc[t].result.source = "error") =>
                   ~Truthy(loc[t].cloud_response)

\* C5 witness: with the local tier available, a 'complex' prompt was
\* answered by the cloud backend and the local backend was not invoked.
C5_Witness ==
    \E t \in Threads :
        /\ pc[t] = "returned"
        /\ use_local
        /\ loc[t].complexity = "complex"
        /\ loc[t].result.source = "cloud"
        /\ ~Invoked(t, "local")

\* C6: within one call the local backend is invoked at most once and the
\* cloud backend at most once; a call whose local invocation failed invokes
\* the cloud backend exactly once; and a call whose cloud invocation gave no
\* answer returns the error result.
C6_NoRetry ==
    \A t \in Threads :
        /\ Count(trace[t], "local") <= 1
        /\ Count(trace[t], "cloud") <= 1
        /\ (Completed(t) /\ Invoked(t, "local") /\ ~Truthy(loc[t].local_response)) =>
              Count(trace[t], "cloud") = 1
        /\ (Completed(t) /\ Invoked(t, "cloud") /\ ~Truthy(loc[t].cloud_response)) =>
              (pc[t] = "returned" /\ loc[t].result.source = "error")

\* C6 witness: the local generation failed, the cloud backend was invoked
\* once and failed, and the call returned the error result.
C6_Witness ==
    \E t \in Threads :
        /\ pc[t] = "returned"
        /\ trace[t] = <<"rule", "classifier", "local", "cloud">>
        /\ ~Truthy(loc[t].local_response)
        /\ loc[t].result.source = "error"

\* C7: no call of answer_question ends by raising an exception, and every
\* result returned has one of the four sources.
C7_NeverRaises ==
    \A t \in Threads :
        /\ pc[t] # "raised"
        /\ pc[t] = "returned" => loc[t].result.source \in Sources

\* C8: when update_stats returns, stats is stats as it was when update_stats
\* was called with exactly the fields of the kind changed: 'rule-based' adds
\* 1 response, 50 tokens saved, 100 mg CO2 and 25 ml water; 'local' adds 1
\* response, 100 tokens saved, 200 mg CO2 and 25 ml water; 'cloud' adds 1
\* response and the given tokens to total_tokens_used.
C8_UpdateStatsEffect ==
    \A t \in Threads :
        pc[t] = "update_stats_done" =>
            stats =
              IF loc[t].response_type = "rule-based"
              THEN [upd0[t] EXCEPT !["rule_based_responses"] = @ + 1,
                                   !["tokens_saved"] = @ + 50,
                                   !["co2_saved_grams"] = @ + 100,
                                   !["water_saved_ml"] = @ + 25]
              ELSE IF loc[t].response_type = "local"
              THEN [upd0[t] EXCEPT !["local_responses"] = @ + 1,
                                   !["tokens_saved"] = @ + 100,
                                   !["co2_saved_grams"] = @ + 200,
                                   !["water_saved_ml"] = @ + 25]
              ELSE [upd0[t] EXCEPT !["cloud_responses"] = @ + 1,
                                   !["total_tokens_used"] = @ + loc[t].tokens.n]

\* C8 witness: update_stats('local') has returned.
C8_Witness ==
    \E t \in Threads :
        /\ pc[t] = "update_stats_done"
        /\ loc[t].response_type = "local"
        /\ stats["local_responses"] = upd0[t]["local_responses"] + 1

\* C9: every step that changes stats is a write of update_stats.
C9_OnlyUpdateStatsWrites ==
    [][stats' # stats => \E t \in Threads : pc[t] = "stats_write" /\ pc'[t] # "stats_write"]_vars

\* C10: as long as the token counts the cloud backend reported to the calls
\* in progress are not negative, no step decreases any field of stats.
C10_StatsMonotone ==
    [][(\A t \in Threads : loc[t].tokens.n >= 0 /\ loc[t].reasoning_tokens.n >= 0)
          => \A f \in StatsFields : stats'[f] >= stats[f]]_vars

\* C10 witness: a report produced after a cloud answer, the totals kept.
C10_Witness ==
    \E t \in Threads :
        /\ pc[t] = "reported"
        /\ ~loc[t].report.empty
        /\ stats["cloud_responses"] = 1
        /\ stats["total_tokens_used"] = 80
        /\ stats["reasoning_tokens_used"] = 7

NoCallInProgress == \A t \in Threads : pc[t] \in {"idle", "returned", "raised", "reported"}

\* C11 (as claimed): a result of source 'rule-based', 'local' or 'error' has
\* tokens 0 and co2 0; a result of source 'cloud' has the total token usage
\* the cloud backend reported as its tokens and 2 mg per token as its co2;
\* and between calls total_tokens_used is the sum of the tokens of the
\* 'cloud' results returned so far.
C11_TokensAreReportedUsage ==
    /\ \A t \in Threads :
          pc[t] = "returned" =>
             IF loc[t].result.source = "cloud"
             THEN /\ loc[t].reply.has_total
                  /\ loc[t].result.tokens = loc[t].reply.total
                  /\ loc[t].result.co2 = 2 * loc[t].result.tokens.n
             ELSE loc[t].result.tokens = JInt(0) /\ loc[t].result.co2 = 0
    /\ NoCallInProgress => stats["total_tokens_used"] = cloud_tokens

\* C11 (amended): as claimed, except that the tokens of a 'cloud' result are
\* the reported total token usage when the reply carries one and
\* max_tokens (150) when it carries none.
C11_TokensOfResult ==
    /\ \A t \in Threads :
          pc[t] = "returned" =>
             IF loc[t].result.source = "cloud"
             THEN /\ loc[t].result.tokens =
                        (IF loc[t].reply.has_total THEN loc[t].reply.total ELSE JInt(150))
                  /\ loc[t].result.co2 = 2 * loc[t].result.tokens.n
             ELSE loc[t].result.tokens = JInt(0) /\ loc[t].result.co2 = 0
    /\ NoCallInProgress => stats["total_tokens_used"] = cloud_tokens

\* C11 witness: a second cloud answer was returned; the backend reported 80
\* tokens for it, the result carries 80 tokens and 160 mg, and
\* total_tokens_used is the sum over both cloud results.
C11_Witness ==
    \E t \in Threads :
        /\ pc[t] = "returned"
        /\ loc[t].result.source = "cloud"
        /\ loc[t].reply.has_total
        /\ loc[t].result.tokens = JInt(80)
        /\ loc[t].result.co2 = 160
        /\ answers["cloud"] = 2
        /\ stats["total_tokens_used"] = cloud_tokens
        /\ cloud_tokens > 80

\* C12: whenever a thread is free to read stats (get_impact_report, the
\* /stats endpoint), no update_stats call is seen half applied:
\* tokens_saved = 50 * rule_based_responses + 100 * local_responses and
\* water_saved_ml = 25 * (rule_based_responses + local_responses).
C12_NoPartialUpdate ==
    (\E t \in Threads : pc[t] = "idle") =>
        /\ stats["tokens_saved"] =
              50 * stats["rule_based_responses"] + 100 * stats["local_responses"]
        /\ stats["water_saved_ml"] =
              25 * (stats["rule_based_responses"] + stats["local_responses"])

\* C13: when the construction of the instance met a failing load of the
\* local backend, force_cloud or the configuration that disables the local
\* tier, use_local is false in every state, no call invokes the local
\* backend, and every call that completes went through the rule engine
\* alone or through the rule engine, the classifier and the cloud backend.
C13_DowngradeIsPermanent ==
    downgraded =>
        /\ ~use_local
        /\ \A t \in Threads :
              /\ ~Invoked(t, "local")
              /\ Completed(t) =>
                    \/ trace[t] = <<"rule">>
                    \/ trace[t] = <<"rule", "classifier", "cloud">>
              /\ pc[t] = "returned" =>
                    \/ loc[t].result.source = "rule-based" /\ trace[t] = <<"rule">>
                    \/ loc[t].result.source \in {"cloud", "error"}
                         /\ trace[t] = <<"rule", "classifier", "cloud">>

\* C13 witness: the self-test of a loaded model failed at construction; a
\* second call, with a 'simple' prompt, was answered by the cloud backend.
C13_Witness ==
    \E t \in Threads :
        /\ downgraded
        /\ local_model
        /\ calls = 2
        /\ pc[t] = "returned"
        /\ loc[t].complexity = "simple"
        /\ loc[t].result.source = "cloud"

\* C14: a call whose cloud request timed out returns the 'error' result, and
\* every call that reaches the cloud tier eventually returns a result: it
\* does not end by an exception, and it does not stay in the cloud tier.
C14_CloudCallCompletes ==
    /\ [](\A t \in Threads :
             (pc[t] = "returned" /\ loc[t].reply.kind = "Timeout") =>
                 loc[t].result = ErrorResult)
    /\ [](\A t \in Threads :
             (pc[t] = "raised") =>
                 (\A i \in 1..Len(trace[t]) : trace[t][i] # "cloud"))
    /\ \A t \in Threads : (pc[t] = "cloud") ~> (pc[t] = "returned")

TotalQueries ==
    stats["rule_based_responses"] + stats["local_responses"] + stats["cloud_responses"]

\* p is count / total * 100 in tenths of a percent, rounded
IsPercentage(p, count, total) ==
    /\ 2 * total * p - 2000 * count <= total
    /\ 2000 * count - 2 * total * p <= total

\* C15: a report produced when the three response counters add up to 0 is
\* the 'no queries yet' message; any other report was computed with a total
\* above 0, each percentage being count / total * 100.
C15_NoDivisionByZero ==
    \A t \in Threads :
        pc[t] = "reported" =>
            IF TotalQueries = 0
            THEN loc[t].report.empty
            ELSE /\ ~loc[t].report.empty
                 /\ loc[t].report.total_queries = TotalQueries
                 /\ loc[t].report.total_queries > 0
                 /\ IsPercentage(loc[t].report.rule_pct, stats["rule_based_responses"],
                                 loc[t].report.total_queries)
                 /\ IsPercentage(loc[t].report.local_pct, stats["local_responses"],
                                 loc[t].report.total_queries)
                 /\ IsPercentage(loc[t].report.cloud_pct, stats["cloud_responses"],
                                 loc[t].report.total_queries)

\* C15 witness: a report asked for after a call that returned the 'error'
\* result, the counters still adding up to 0.
C15_Witness ==
    \E t \in Threads :
        /\ pc[t] = "reported"
        /\ answers["error"] = 1
        /\ TotalQueries = 0
        /\ loc[t].report.empty

\* C16: for a prompt whose arithmetic raises (the division by zero "1/0",
\* the malformed "2+") or keeps a disallowed character after the phrase
\* stripping ("a-b"), the rule engine returns None and does not raise: the
\* call goes on to the classifier, with stats as they were when it began
\* and no update_stats('rule-based') made for it.
C16_RuleErrorsDecline ==
    \A t \in Threads :
        (loc[t].prompt \in {"1/0", "2+", "a-b"} /\ pc[t] # "rule_based") =>
            /\ loc[t].rule_response = None
            /\ IsPrefix(<<"rule", "classifier">>, trace[t]) \/ trace[t] = <<"rule">>
            /\ loc[t].response_type # "rule-based"
            /\ pc[t] = "categorize" =>
                  /\ trace[t] = <<"rule">>
                  /\ stats = stats0[t]
            /\ pc[t] = "raised" => Invoked(t, "cloud")

\* C16 witness: after a greeting was answered, a call with "1/0" has left
\* the rule engine for the classifier, stats unchanged.
C16_Witness ==
    \E t \in Threads :
        /\ loc[t].prompt = "1/0"
        /\ pc[t] = "categorize"
        /\ loc[t].rule_response = None
        /\ stats["rule_based_responses"] = 1
        /\ stats = stats0[t]

\* The number of words of s, counted at the ends of the words
WordsOf(s) ==
    Cardinality({i \in 1..Len(s) :
        /\ CharAt(s, i) # " "
        /\ (i = Len(s) \/ CharAt(s, i + 1) = " ")})

\* the lowercased text holds one of the ten phrases
HoldsComplexPhrase(lowered) ==
    \E k \in {"write code", "create a program", "explain in detail",
               "comprehensive analysis", "step by step guide", "detailed explanation",
               "compare and contrast", "prove mathematically", "write an essay",
               "design a system"} :
        \E i \in 1..(Len(lowered) - Len(k) + 1) : SubSeq(lowered, i, i + Len(k) - 1) = k
HasComplexPhrase(s) == HoldsComplexPhrase(lower(s))

C18_OneInstance ==
    /\ Len(objects) <= 1
    /\ \A t \in Threads :
          req[t].pc = "stats_done" => req[t].seen >= req[t].replied_before

LocalFailed(t) ==
    /\ Invoked(t, "local")
    /\ pc[t] # "local"
    /\ ~Truthy(loc[t].local_response)

\* C19 (as claimed): a local generation failure during a call updates the
\* availability that gates the local tier: after it use_local is false.
C19_FailureUpdatesAvailability ==
    \A t \in Threads : LocalFailed(t) => ~use_local

\* C19 (amended): availability is evaluated at construction only: a local
\* generation failure during a call leaves use_local true, the call going
\* on to the cloud backend.
C19_FailureKeepsAvailability ==
    \A t \in Threads :
        LocalFailed(t) =>
            /\ use_local
            /\ IsPrefix(<<"rule", "classifier", "local", "cloud">>, trace[t])
                  \/ pc[t] = "cloud"

\* C19 witness: in a second call the local generation has failed and the
\* call is about to ask the cloud backend, use_local still true.
C19_Witness ==
    \E t \in Threads :
        /\ calls = 2
        /\ LocalFailed(t)
        /\ pc[t] = "cloud"
        /\ use_local

\* C20: in every state use_local implies that local_model and device are
\* set, so a local_inference called by answer_question passes its three
\* early returns: a local invocation that gave no answer is one whose
\* generation failed.
C20_UseLocalImpliesLoaded ==
    /\ use_local => (local_model /\ device)
    /\ \A t \in Threads :
          Invoked(t, "local") => (use_local /\ local_model /\ device)

\* C20 witness: answer_question has called local_inference, which answered.
C20_Witness ==
    \E t \in Threads :
        /\ Invoked(t, "local")
        /\ Truthy(loc[t].local_response)
        /\ use_local /\ local_model /\ device /\ tokenizer

=============================================================================
